---- MODULE Spec2Model ----
(***************************************************************************)
(* PyTestLog2DB: import of pytest JUnit XML reports into the               *)
(* TestResultWebApp database (src/PyTestLog2DB/pytestlog2db.py).           *)
(*                                                                         *)
(* A Python string is a sequence of one-character strings, so that         *)
(* strip() and split(";") are computed.  Python's None is the one-element  *)
(* sequence <<"None">>, which is no string of characters.                  *)
(* A point in time is an integer number of ticks, Frac ticks to a second;  *)
(* a formatted time is a record that names its format.                     *)
(***************************************************************************)
EXTENDS Integers, Sequences, FiniteSets, TLC

\* ------------------------------------------------------------------ bounds
MaxRuns == 2      \* sequential invocations of the importer
Frac == 2         \* ticks per second (resolution of the fractional seconds)
MaxStamp == 3     \* largest suite timestamp, in ticks, of a merge input
MaxTime == 2      \* largest suite or test duration, in ticks
MaxTests == 3     \* most test cases in a suite of a walk input
MaxVersionLen == 5  \* most characters of an enumerated software version
MaxFieldLen == 6  \* characters the database keeps for a variant or version

\* --------------------------------------------------------------- constants
None == <<"None">>
PYTEST_DATETIME_FORMAT == "%Y-%m-%dT%H:%M:%S.%f"
DB_DATETIME_FORMAT == "%Y-%m-%d %H:%M:%S"
COMPACT_FORMAT == "%Y%m%d_%H%M%S"

DEFAULT_METADATA ==
  [ components   |-> [type |-> "str", v |-> <<"u","n","k","n","o","w","n">>],
    variant      |-> <<"P","y","T","e","s","t">>,
    version_sw   |-> <<>>,
    version_hw   |-> <<>>,
    version_test |-> <<>>,
    testtool     |-> <<"t","o","o","l">>,
    tester       |-> <<"u","s","e","r">> ]

\* ------------------------------------------------------------ str helpers
RECURSIVE lstrip(_)
lstrip(s) == IF s # <<>> /\ Head(s) = " " THEN lstrip(Tail(s)) ELSE s

RECURSIVE rstrip(_)
rstrip(s) ==
  IF s # <<>> /\ s[Len(s)] = " " THEN rstrip(SubSeq(s, 1, Len(s) - 1)) ELSE s

\* str.strip()
strip(s) == rstrip(lstrip(s))

\* str.split(sep): the fields between the separators, never an empty list
RECURSIVE split(_, _)
split(s, sep) ==
  IF \E i \in 1..Len(s) : s[i] = sep
    THEN LET i == CHOOSE k \in 1..Len(s) :
                     s[k] = sep /\ \A j \in 1..(k - 1) : s[j] # sep
         IN  <<SubSeq(s, 1, i - 1)>> \o split(SubSeq(s, i + 1, Len(s)), sep)
    ELSE <<s>>

\* ----------------------------------------------------------- time helpers
\* datetime.strptime(s, fmt): ticks of a formatted time (the inputs of the
\* model are always in the format they are parsed with)
strptime(s, fmt) ==
  IF fmt = PYTEST_DATETIME_FORMAT THEN s.v ELSE s.v * Frac

\* datetime.strftime(dt, fmt): only the PyTest format keeps the fraction
strftime(dt, fmt) ==
  IF fmt = PYTEST_DATETIME_FORMAT
    THEN [fmt |-> fmt, v |-> dt]
    ELSE [fmt |-> fmt, v |-> dt \div Frac]

\* a timestamp attribute of a report document
Stamp(ticks) == [fmt |-> PYTEST_DATETIME_FORMAT, v |-> ticks]

\* the compact start time as the characters of a version string
CompactChars(t) == <<"T", ToString(t.v)>>

\* ------------------------------------------------------- parse_pytest_xml
\* WindowStep with the comparison of line 593 turned round
WindowStep_Inverted(w, oSuite) ==
  LET dtTimestamp == strptime(oSuite.timestamp, PYTEST_DATETIME_FORMAT)
  IN  IF dtTimestamp > w.dtStartTime
        THEN [w EXCEPT !.dtStartTime = dtTimestamp]
        ELSE IF dtTimestamp + oSuite.time > w.dtEndTime
               THEN [w EXCEPT !.dtEndTime = dtTimestamp]
               ELSE w

\* lines 590-596: the window check made for a suite of a later document
WindowStep(w, oSuite) ==
  LET dtTimestamp == strptime(oSuite.timestamp, PYTEST_DATETIME_FORMAT)
  IN  IF dtTimestamp < w.dtStartTime
        THEN [w EXCEPT !.dtStartTime = dtTimestamp]
        ELSE IF dtTimestamp + oSuite.time > w.dtEndTime
               THEN [w EXCEPT !.dtEndTime = dtTimestamp]
               ELSE w

RECURSIVE WindowFold(_, _)
WindowFold(w, suites) ==
  IF suites = <<>> THEN w
  ELSE WindowFold(WindowStep(w, Head(suites)), Tail(suites))

RECURSIVE Flatten(_)
Flatten(docs) == IF docs = <<>> THEN <<>> ELSE Head(docs) \o Flatten(Tail(docs))

\* the merge raises (and the import is fatal) when the first document has
\* no child to seed the window with
MergeFails(xmlfiles) == xmlfiles = <<>> \/ xmlfiles[1] = <<>>

\* parse_pytest_xml with a loop of line 587 that ends after the first suite
\* of every further document
parse_pytest_xml_FirstSuites(xmlfiles) ==
  LET first == xmlfiles[1]
      rest  == Tail(xmlfiles)
      extra == Flatten([i \in 1..Len(rest) |->
                          IF rest[i] = <<>> THEN <<>> ELSE <<rest[i][1]>>])
      seed  == [ dtStartTime |-> strptime(first[1].timestamp, PYTEST_DATETIME_FORMAT),
                 dtEndTime   |-> strptime(first[1].timestamp, PYTEST_DATETIME_FORMAT)
                                   + first[1].time ]
      w     == WindowFold(seed, extra)
  IN  [ suites    |-> first \o extra,
        starttime |-> strftime(w.dtStartTime, DB_DATETIME_FORMAT),
        endtime   |-> strftime(w.dtEndTime, DB_DATETIME_FORMAT) ]

\* lines 576-603: the merged tree with the window of the result
parse_pytest_xml(xmlfiles) ==
  LET first == xmlfiles[1]
      extra == Flatten(Tail(xmlfiles))
      seed  == [ dtStartTime |-> strptime(first[1].timestamp, PYTEST_DATETIME_FORMAT),
                 dtEndTime   |-> strptime(first[1].timestamp, PYTEST_DATETIME_FORMAT)
                                   + first[1].time ]
      w     == WindowFold(seed, extra)
  IN  [ suites    |-> first \o extra,
        starttime |-> strftime(w.dtStartTime, DB_DATETIME_FORMAT),
        endtime   |-> strftime(w.dtEndTime, DB_DATETIME_FORMAT) ]

\* ------------------------------------------------------- get_test_result
\* lines 663-679: (main result, return code) from the child elements
get_test_result(oTest) ==
  IF "failure" \in oTest.children
    THEN [result_main |-> "Failed", return_code |-> 12]
  ELSE IF "error" \in oTest.children
    THEN [result_main |-> "unknown", return_code |-> 5]
  ELSE IF "skipped" \in oTest.children
    THEN [result_main |-> "unknown", return_code |-> 20]
  ELSE [result_main |-> "Passed", return_code |-> 11]

\* ------------------------------------------------ process_component_info
\* Python's "sub in s" for strings
IsSubstring(sub, s) ==
  \E i \in 0..(Len(s) - Len(sub)) : SubSeq(s, i + 1, i + Len(sub)) = sub

\* a components value is [type |-> "str", v |-> chars] or
\* [type |-> "dict", items |-> sequence of [key, val]] in declaration order,
\* a val being [type |-> "str", v |-> chars] or [type |-> "list", v |-> strings]
ComponentMatches(val, sTestClassname) ==
  IF val.type = "list"
    THEN \E k \in 1..Len(val.v) : IsSubstring(val.v[k], sTestClassname)
    ELSE IsSubstring(val.v, sTestClassname)

\* process_component_info with the loop of line 711 never left at a match:
\* the last matching label wins
process_component_info_LastMatch(dConfig, sTestClassname) ==
  LET c == dConfig.components
  IN  IF c.type = "dict"
        THEN IF \E i \in 1..Len(c.items) : ComponentMatches(c.items[i].val, sTestClassname)
               THEN c.items[CHOOSE i \in 1..Len(c.items) :
                              /\ ComponentMatches(c.items[i].val, sTestClassname)
                              /\ \A j \in (i + 1)..Len(c.items) :
                                   ~ComponentMatches(c.items[j].val, sTestClassname)].key
               ELSE <<"u","n","k","n","o","w","n">>
      ELSE IF strip(c.v) # <<>> THEN c.v
      ELSE <<"u","n","k","n","o","w","n">>

\* process_component_info without the strip() of line 731
process_component_info_NoStrip(dConfig, sTestClassname) ==
  LET c == dConfig.components
  IN  IF c.type = "dict"
        THEN IF \E i \in 1..Len(c.items) : ComponentMatches(c.items[i].val, sTestClassname)
               THEN c.items[CHOOSE i \in 1..Len(c.items) :
                              /\ ComponentMatches(c.items[i].val, sTestClassname)
                              /\ \A j \in 1..(i - 1) :
                                   ~ComponentMatches(c.items[j].val, sTestClassname)].key
               ELSE <<"u","n","k","n","o","w","n">>
      ELSE IF c.v # <<>> THEN c.v
      ELSE <<"u","n","k","n","o","w","n">>

\* lines 706-734
process_component_info(dConfig, sTestClassname) ==
  LET c == dConfig.components
  IN  IF c.type = "dict"
        THEN IF \E i \in 1..Len(c.items) : ComponentMatches(c.items[i].val, sTestClassname)
               THEN c.items[CHOOSE i \in 1..Len(c.items) :
                              /\ ComponentMatches(c.items[i].val, sTestClassname)
                              /\ \A j \in 1..(i - 1) :
                                   ~ComponentMatches(c.items[j].val, sTestClassname)].key
               ELSE <<"u","n","k","n","o","w","n">>
      ELSE IF strip(c.v) # <<>> THEN c.v
      ELSE <<"u","n","k","n","o","w","n">>

\* --------------------------------------------------- metadata resolution
\* lines 1099-1105: the fields of --versions, each stripped
Versions(args) ==
  IF args.versions # None /\ strip(args.versions) # <<>>
    THEN LET f == split(args.versions, ";")
         IN  [i \in 1..Len(f) |-> strip(f[i])]
    ELSE <<>>

\* lines 1116-1118: the configuration file completed by the defaults
WithDefaults(config) ==
  [key \in DOMAIN DEFAULT_METADATA |->
     IF key \in DOMAIN config THEN config[key] ELSE DEFAULT_METADATA[key]]

\* ResolveVariant with line 1146 left out: --variant does not clear the flag
ResolveVariant_FlagKept(a, cfg) ==
  IF a.variant # None /\ strip(a.variant) # <<>>
    THEN [sVariant |-> strip(a.variant), bUseDefaultPrjVariant |-> TRUE]
    ELSE [sVariant |-> cfg.variant,
          bUseDefaultPrjVariant |-> (cfg.variant = DEFAULT_METADATA.variant)]

\* lines 1143-1152
ResolveVariant(a, cfg) ==
  IF a.variant # None /\ strip(a.variant) # <<>>
    THEN [sVariant |-> strip(a.variant), bUseDefaultPrjVariant |-> FALSE]
    ELSE [sVariant |-> cfg.variant,
          bUseDefaultPrjVariant |-> (cfg.variant = DEFAULT_METADATA.variant)]

\* ResolveVersions with the test of line 1166 reduced to len(arVersions)==3
ResolveVersions_NoHardware(arVersions, cfg) ==
  [ sVersionSW   |-> IF Len(arVersions) >= 1 THEN arVersions[1] ELSE cfg.version_sw,
    sVersionHW   |-> IF Len(arVersions) = 3 THEN arVersions[2] ELSE cfg.version_hw,
    sVersionTest |-> IF Len(arVersions) = 3 THEN arVersions[3] ELSE cfg.version_test,
    bUseDefaultVersionSW |->
      (cfg.version_sw = DEFAULT_METADATA.version_sw /\ Len(arVersions) = 0) ]

\* lines 1154-1172
ResolveVersions(arVersions, cfg) ==
  [ sVersionSW   |-> IF Len(arVersions) >= 1 THEN arVersions[1] ELSE cfg.version_sw,
    sVersionHW   |-> IF Len(arVersions) >= 2 THEN arVersions[2] ELSE cfg.version_hw,
    sVersionTest |-> IF Len(arVersions) = 3 THEN arVersions[3] ELSE cfg.version_test,
    bUseDefaultVersionSW |->
      (cfg.version_sw = DEFAULT_METADATA.version_sw /\ Len(arVersions) = 0) ]

\* TargetVersionSW without lines 1176-1177
TargetVersionSW_Kept(sVersionSW, merged) == sVersionSW

\* lines 1174-1177: an empty software version becomes the compact start time
TargetVersionSW(sVersionSW, merged) ==
  IF sVersionSW = <<>>
    THEN CompactChars(strftime(strptime(merged.starttime, DB_DATETIME_FORMAT),
                               COMPACT_FORMAT))
    ELSE sVersionSW

\* ----------------------------------------------- get_branch_from_swversion
Lower == <<"a","b","c","d","e","f","g","h","i","j","k","l","m",
           "n","o","p","q","r","s","t","u","v","w","x","y","z">>
Capital == <<"A","B","C","D","E","F","G","H","I","J","K","L","M",
             "N","O","P","Q","R","S","T","U","V","W","X","Y","Z">>

\* str.upper()
upper(s) ==
  [i \in 1..Len(s) |->
     IF \E n \in 1..26 : Lower[n] = s[i]
       THEN Capital[CHOOSE n \in 1..26 : Lower[n] = s[i]]
       ELSE s[i]]

IsDigit(c) == c \in {"0","1","2","3","4","5","6","7","8","9"}

\* str.endswith()
endswith(s, suffix) ==
  Len(s) >= Len(suffix) /\ SubSeq(s, Len(s) - Len(suffix) + 1, Len(s)) = suffix

\* a match of (\d+\.)(\d+)([S,F])\d+ that starts at i has its third group
\* at k: digits, a dot, digits, one character of the class, a digit.  The
\* class [S,F] holds the comma as well.
MatchesAt(s, i, k) ==
  \E j \in (i + 1)..(k - 2) :
    /\ \A m \in i..(j - 1) : IsDigit(s[m])
    /\ s[j] = "."
    /\ \A m \in (j + 1)..(k - 1) : IsDigit(s[m])
    /\ s[k] \in {"S", ",", "F"}
    /\ k + 1 <= Len(s) /\ IsDigit(s[k + 1])

\* lines 635-643: the three groups of the leftmost match, joined, or main
get_branch_from_swversion(sw_version) ==
  LET s == upper(sw_version)
      starts == {i \in 1..Len(s) : \E k \in 1..Len(s) : MatchesAt(s, i, k)}
      branch_name ==
        IF starts = {} THEN <<"m","a","i","n">>
        ELSE LET i == CHOOSE a \in starts : \A b \in starts : a <= b
                 k == CHOOSE c \in 1..Len(s) : MatchesAt(s, i, c)
             IN  SubSeq(s, i, k)
  IN  IF endswith(branch_name, <<".","0","F">>) THEN <<"m","a","i","n">>
      ELSE branch_name

\* OpenDecision without the else branch of lines 1217-1221
OpenDecision_NoDuplicate(db_result_info, append, bDefPrjVariant, prj_variant, bDefVersionSW, version_sw) ==
  IF Len(db_result_info) > 0 /\ append
    THEN IF ~bDefPrjVariant /\ prj_variant # db_result_info[1]
           THEN "conflict_variant"
         ELSE IF ~bDefVersionSW /\ version_sw # db_result_info[2]
           THEN "conflict_version"
         ELSE "append"
    ELSE IF append THEN "nothing_to_append" ELSE "create"

\* OpenDecision with the two columns of the lookup taken in the wrong order
OpenDecision_SwappedInfo(db_result_info, append, bDefPrjVariant, prj_variant, bDefVersionSW, version_sw) ==
  IF Len(db_result_info) > 0
    THEN IF append
           THEN IF ~bDefPrjVariant /\ prj_variant # db_result_info[2]
                  THEN "conflict_variant"
                ELSE IF ~bDefVersionSW /\ version_sw # db_result_info[1]
                  THEN "conflict_version"
                ELSE "append"
           ELSE "duplicate"
    ELSE IF append THEN "nothing_to_append" ELSE "create"

\* OpenDecision without the check of lines 1223-1227
OpenDecision_AppendCreates(db_result_info, append, bDefPrjVariant, prj_variant, bDefVersionSW, version_sw) ==
  IF Len(db_result_info) > 0
    THEN IF append
           THEN IF ~bDefPrjVariant /\ prj_variant # db_result_info[1]
                  THEN "conflict_variant"
                ELSE IF ~bDefVersionSW /\ version_sw # db_result_info[2]
                  THEN "conflict_version"
                ELSE "append"
           ELSE "duplicate"
    ELSE "create"

\* lines 1205-1243: what the run does with the answer of the lookup
\* (db_result_info is <<>> when the identifier is not in the database)
OpenDecision(db_result_info, append, bDefPrjVariant, prj_variant, bDefVersionSW, version_sw) ==
  IF Len(db_result_info) > 0
    THEN IF append
           THEN IF ~bDefPrjVariant /\ prj_variant # db_result_info[1]
                  THEN "conflict_variant"
                ELSE IF ~bDefVersionSW /\ version_sw # db_result_info[2]
                  THEN "conflict_version"
                ELSE "append"
           ELSE "duplicate"
    ELSE IF append THEN "nothing_to_append" ELSE "create"

\* line 949: a new file is opened when the class name changes
OpensFile(previous_name, file_name) == previous_name # file_name

\* ------------------------------------------------------------- CDataBase
\* The calls of PyTestLog2DB.CDataBase, modelled from its interface as plain
\* table operations: a lookup by identifier, appends without any uniqueness
\* check, and the finish of a result.
arGetProjectVersionSWByID(results, id) ==
  LET rows == SelectSeq(results, LAMBDA r : r.test_result_id = id)
  IN  IF rows = <<>> THEN <<>>
      ELSE <<rows[1].variant, rows[1].version_sw_target>>

sCreateNewTestResult(results, row) == Append(results, row)

nCreateNewFile(files, row) ==
  Append(files, [row EXCEPT !.file_id = Len(files) + 1])

vCreateNewHeader(headers, row) == Append(headers, row)

nCreateNewSingleTestCase(cases, row) == Append(cases, row)

vFinishTestResult(results, id) ==
  [i \in 1..Len(results) |->
     IF results[i].test_result_id = id
       THEN [results[i] EXCEPT !.state = "finished"] ELSE results[i]]

\* ------------------------------------------------------------------ state
VARIABLES
  tbl_result, tbl_file, tbl_header, tbl_case,  \* the tables of the database
  pc,                      \* position of the running importer
  nruns,                   \* invocations started so far
  error,                   \* the fatal error or exception that ended the run
  args, dConfig,
  config,                  \* the content of the file of --config, as read
  listEntries,             \* the report documents of the command line, parsed
  pytest_result,           \* the merged report
  bUseDefaultPrjVariant, bUseDefaultVersionSW,
  tbl_prj_variant, tbl_prj_branch, tbl_result_version_sw_target,
  tbl_result_version_hardware, tbl_result_version_sw_test,
  tbl_test_result_id,
  suite_idx, test_idx,     \* the two loops: line 1247 and line 945
  previous_file_name, tbl_file_id, tbl_file_time_start, tbl_file_time_end,
  test_number, test_start_time,
  iTotalTestcase, iSuccessTestcase, dComponentCounter,
  calls,                   \* database calls issued by the running importer
  db0,                     \* the tables as they were when the run started
  suspended                \* a second importer process, while it does not run

dbVars == <<tbl_result, tbl_file, tbl_header, tbl_case>>
metaVars == <<bUseDefaultPrjVariant, bUseDefaultVersionSW, tbl_prj_variant,
              tbl_prj_branch, tbl_result_version_sw_target, tbl_result_version_hardware,
              tbl_result_version_sw_test, tbl_test_result_id>>
inVars == <<args, dConfig, config, listEntries, pytest_result, nruns, db0, suspended>>
walkVars == <<previous_file_name, tbl_file_id, tbl_file_time_start,
              tbl_file_time_end, test_number, test_start_time>>
loopVars == <<suite_idx, test_idx>>
cntVars == <<iTotalTestcase, iSuccessTestcase, dComponentCounter>>
vars == <<dbVars, pc, error, inVars, metaVars, walkVars, loopVars, cntVars, calls>>

\* the state of one importer process: its position, its arguments, its
\* module state and locals (the tables are shared, they are the database's)
Locals ==
  [ pc                           |-> pc,
    error                        |-> error,
    args                         |-> args,
    dConfig                      |-> dConfig,
    config                       |-> config,
    listEntries                  |-> listEntries,
    pytest_result                |-> pytest_result,
    bUseDefaultPrjVariant        |-> bUseDefaultPrjVariant,
    bUseDefaultVersionSW         |-> bUseDefaultVersionSW,
    tbl_prj_variant              |-> tbl_prj_variant,
    tbl_prj_branch               |-> tbl_prj_branch,
    tbl_result_version_sw_target |-> tbl_result_version_sw_target,
    tbl_result_version_hardware  |-> tbl_result_version_hardware,
    tbl_result_version_sw_test   |-> tbl_result_version_sw_test,
    tbl_test_result_id           |-> tbl_test_result_id,
    suite_idx                    |-> suite_idx,
    test_idx                     |-> test_idx,
    previous_file_name           |-> previous_file_name,
    tbl_file_id                  |-> tbl_file_id,
    tbl_file_time_start          |-> tbl_file_time_start,
    tbl_file_time_end            |-> tbl_file_time_end,
    test_number                  |-> test_number,
    test_start_time              |-> test_start_time,
    iTotalTestcase               |-> iTotalTestcase,
    iSuccessTestcase             |-> iSuccessTestcase,
    dComponentCounter            |-> dComponentCounter,
    calls                        |-> calls,
    db0                          |-> db0 ]

\* the values of _tbl_file_id: None, an id of the database, the dry-run text
NoFileId == [kind |-> "None"]
DryrunFileId == [kind |-> "str"]
DbFileId(n) == [kind |-> "int", n |-> n]
\* line 1038: ids of the database are positive, the text is not empty
Truthy(id) == id.kind # "None"

NoArgs == [append |-> FALSE, UUID |-> None, dryrun |-> FALSE,
           variant |-> None, versions |-> None]

\* no second importer process has been started
NotStarted == <<>>

Init ==
  /\ tbl_result = <<>> /\ tbl_file = <<>> /\ tbl_header = <<>> /\ tbl_case = <<>>
  /\ pc = "idle" /\ nruns = 0 /\ error = ""
  /\ args = NoArgs /\ dConfig = DEFAULT_METADATA
  /\ config = <<>>
  /\ listEntries = <<>>
  /\ pytest_result = [suites |-> <<>>, starttime |-> strftime(0, DB_DATETIME_FORMAT),
                      endtime |-> strftime(0, DB_DATETIME_FORMAT)]
  /\ bUseDefaultPrjVariant = TRUE /\ bUseDefaultVersionSW = TRUE
  /\ tbl_prj_variant = <<>> /\ tbl_prj_branch = <<>>
  /\ tbl_result_version_sw_target = <<>>
  /\ tbl_result_version_hardware = <<>> /\ tbl_result_version_sw_test = <<>>
  /\ tbl_test_result_id = None
  /\ suite_idx = 1 /\ test_idx = 1
  /\ previous_file_name = <<>> /\ tbl_file_id = NoFileId
  /\ tbl_file_time_start = Stamp(0) /\ tbl_file_time_end = strftime(0, DB_DATETIME_FORMAT)
  /\ test_number = 1 /\ test_start_time = 0
  /\ iTotalTestcase = 0 /\ iSuccessTestcase = 0 /\ dComponentCounter = <<>>
  /\ calls = <<>>
  /\ db0 = <<<<>>, <<>>, <<>>, <<>>>>
  /\ suspended = NotStarted

\* an importer process before it runs: the state of Init
IdleLocals ==
  [ pc |-> "idle",
    error |-> "",
    args |-> NoArgs,
    dConfig |-> DEFAULT_METADATA,
    config |-> <<>>,
    listEntries |-> <<>>,
    pytest_result |-> [suites |-> <<>>, starttime |-> strftime(0, DB_DATETIME_FORMAT),
                      endtime |-> strftime(0, DB_DATETIME_FORMAT)],
    bUseDefaultPrjVariant |-> TRUE,
    bUseDefaultVersionSW |-> TRUE,
    tbl_prj_variant |-> <<>>,
    tbl_prj_branch |-> <<>>,
    tbl_result_version_sw_target |-> <<>>,
    tbl_result_version_hardware |-> <<>>,
    tbl_result_version_sw_test |-> <<>>,
    tbl_test_result_id |-> None,
    suite_idx |-> 1,
    test_idx |-> 1,
    previous_file_name |-> <<>>,
    tbl_file_id |-> NoFileId,
    tbl_file_time_start |-> Stamp(0),
    tbl_file_time_end |-> strftime(0, DB_DATETIME_FORMAT),
    test_number |-> 1,
    test_start_time |-> 0,
    iTotalTestcase |-> 0,
    iSuccessTestcase |-> 0,
    dComponentCounter |-> <<>>,
    calls |-> <<>>,
    db0 |-> <<<<>>, <<>>, <<>>, <<>>>> ]

\* the importer process that does not run
Other == IF suspended = NotStarted THEN IdleLocals ELSE suspended

Call(op, ok) == [op |-> op, ok |-> ok]

\* Logger.log_error(..., fatal_error=True): exit(1)
Fatal(msg) == pc' = "aborted" /\ error' = msg
\* an exception nothing catches ends the process as well
Crash(msg) == pc' = "crashed" /\ error' = msg

\* is_valid_uuid: the identifiers that are well-formed version 4 UUIDs
ValidUUIDs == {<<"u1">>, <<"u2">>}

\* uuid.uuid4(): what line 1190 may generate (an identifier that an earlier
\* run generated as well is not excluded)
GeneratedUUIDs == {<<"u2">>}

CurrentSuite == pytest_result.suites[suite_idx]
CurrentTest == CurrentSuite.tests[test_idx]

ResetLocals ==
  /\ bUseDefaultPrjVariant' = TRUE /\ bUseDefaultVersionSW' = TRUE
  /\ tbl_prj_variant' = <<>> /\ tbl_prj_branch' = <<>>
  /\ tbl_result_version_sw_target' = <<>>
  /\ tbl_result_version_hardware' = <<>> /\ tbl_result_version_sw_test' = <<>>
  /\ tbl_test_result_id' = None
  /\ suite_idx' = 1 /\ test_idx' = 1
  /\ previous_file_name' = <<>> /\ tbl_file_id' = NoFileId
  /\ tbl_file_time_start' = Stamp(0)
  /\ tbl_file_time_end' = strftime(0, DB_DATETIME_FORMAT)
  /\ test_number' = 1 /\ test_start_time' = 0
  /\ iTotalTestcase' = 0 /\ iSuccessTestcase' = 0 /\ dComponentCounter' = <<>>

\* lines 1083-1118: a new process; command line, report files, configuration
StartRun(in) ==
  /\ pc \in {"idle", "done", "aborted", "crashed"}
  /\ nruns' = nruns + 1
  /\ args' = in.args
  /\ dConfig' = WithDefaults(in.config)
  /\ config' = in.config
  /\ listEntries' = in.xmlfiles
  /\ db0' = dbVars
  /\ calls' = <<>>
  /\ ResetLocals
  /\ IF MergeFails(in.xmlfiles)
       THEN /\ pytest_result' = [suites |-> <<>>,
                                 starttime |-> strftime(0, DB_DATETIME_FORMAT),
                                 endtime |-> strftime(0, DB_DATETIME_FORMAT)]
            /\ Fatal("merge")
       ELSE /\ pytest_result' = parse_pytest_xml(in.xmlfiles)
            /\ IF in.args.UUID # None /\ in.args.UUID \notin ValidUUIDs
                 THEN Fatal("uuid")
               ELSE IF Len(Versions(in.args)) > 3
                 THEN Fatal("versions")
               ELSE pc' = "connect" /\ error' = ""
  /\ UNCHANGED <<dbVars, suspended>>

\* lines 1122-1130 fail
ConnectFail ==
  /\ pc = "connect"
  /\ Fatal("connect")
  /\ UNCHANGED <<dbVars, inVars, metaVars, walkVars, loopVars, cntVars, calls>>

\* Connect with the error of line 1192 only a warning: the run goes on with
\* the generated identifier
Connect_AppendWarns ==
  /\ pc = "connect"
  /\ LET v  == ResolveVariant(args, dConfig)
         vs == ResolveVersions(Versions(args), dConfig)
     IN  /\ bUseDefaultPrjVariant' = v.bUseDefaultPrjVariant
         /\ tbl_prj_variant' = v.sVariant
         /\ bUseDefaultVersionSW' = vs.bUseDefaultVersionSW
         /\ tbl_result_version_sw_target' = TargetVersionSW(vs.sVersionSW, pytest_result)
         /\ tbl_prj_branch' =
              get_branch_from_swversion(TargetVersionSW(vs.sVersionSW, pytest_result))
         /\ tbl_result_version_hardware' = vs.sVersionHW
         /\ tbl_result_version_sw_test' = vs.sVersionTest
  /\ IF args.UUID # None
       THEN tbl_test_result_id' = args.UUID /\ pc' = "lookup" /\ error' = error
       ELSE /\ \E uuid4 \in GeneratedUUIDs : tbl_test_result_id' = uuid4
            /\ pc' = "lookup" /\ error' = error
  /\ UNCHANGED <<dbVars, inVars, walkVars, loopVars, cntVars, calls>>

\* lines 1122-1201: connect, then resolve the metadata and the identifier
Connect ==
  /\ pc = "connect"
  /\ LET v  == ResolveVariant(args, dConfig)
         vs == ResolveVersions(Versions(args), dConfig)
     IN  /\ bUseDefaultPrjVariant' = v.bUseDefaultPrjVariant
         /\ tbl_prj_variant' = v.sVariant
         /\ bUseDefaultVersionSW' = vs.bUseDefaultVersionSW
         /\ tbl_result_version_sw_target' = TargetVersionSW(vs.sVersionSW, pytest_result)
         /\ tbl_prj_branch' =
              get_branch_from_swversion(TargetVersionSW(vs.sVersionSW, pytest_result))
         /\ tbl_result_version_hardware' = vs.sVersionHW
         /\ tbl_result_version_sw_test' = vs.sVersionTest
  /\ IF args.UUID # None
       THEN tbl_test_result_id' = args.UUID /\ pc' = "lookup" /\ error' = error
       ELSE /\ \E uuid4 \in GeneratedUUIDs : tbl_test_result_id' = uuid4
            /\ IF args.append THEN Fatal("append_without_uuid")
               ELSE pc' = "lookup" /\ error' = error
  /\ UNCHANGED <<dbVars, inVars, walkVars, loopVars, cntVars, calls>>

\* Lookup with the branch of line 1216 falling through to line 1229: the
\* result appended to is created anew
Lookup_AppendRecreates ==
  /\ pc = "lookup"
  /\ calls' = Append(calls, Call("lookup", TRUE))
  /\ LET d == OpenDecision(arGetProjectVersionSWByID(tbl_result, tbl_test_result_id),
                           args.append, bUseDefaultPrjVariant, tbl_prj_variant,
                           bUseDefaultVersionSW, tbl_result_version_sw_target)
     IN  IF d \in {"append", "create"} THEN pc' = "create" /\ error' = error
         ELSE Fatal(d)
  /\ UNCHANGED <<dbVars, inVars, metaVars, walkVars, loopVars, cntVars>>

\* lines 1203-1227: look the identifier up and decide
Lookup ==
  /\ pc = "lookup"
  /\ calls' = Append(calls, Call("lookup", TRUE))
  /\ LET d == OpenDecision(arGetProjectVersionSWByID(tbl_result, tbl_test_result_id),
                           args.append, bUseDefaultPrjVariant, tbl_prj_variant,
                           bUseDefaultVersionSW, tbl_result_version_sw_target)
     IN  IF d = "append" THEN pc' = "suites" /\ error' = error
         ELSE IF d = "create" THEN pc' = "create" /\ error' = error
         ELSE Fatal(d)
  /\ UNCHANGED <<dbVars, inVars, metaVars, walkVars, loopVars, cntVars>>

\* line 1205 raises: caught in line 1244
LookupFail ==
  /\ pc = "lookup"
  /\ calls' = Append(calls, Call("lookup", FALSE))
  /\ Fatal("storage")
  /\ UNCHANGED <<dbVars, inVars, metaVars, walkVars, loopVars, cntVars>>

NewResultRow ==
  [ test_result_id    |-> tbl_test_result_id,
    project           |-> tbl_prj_variant,
    variant           |-> tbl_prj_variant,
    branch            |-> tbl_prj_branch,
    time_start        |-> pytest_result.starttime,
    time_end          |-> pytest_result.endtime,
    version_sw_target |-> tbl_result_version_sw_target,
    version_sw_test   |-> tbl_result_version_sw_test,
    version_hardware  |-> tbl_result_version_hardware,
    state             |-> "new" ]

\* lines 1229-1243
CreateResult ==
  /\ pc = "create"
  /\ IF args.dryrun
       THEN UNCHANGED <<tbl_result, calls>>
       ELSE /\ tbl_result' = sCreateNewTestResult(tbl_result, NewResultRow)
            /\ calls' = Append(calls, Call("result", TRUE))
  /\ pc' = "suites"
  /\ UNCHANGED <<tbl_file, tbl_header, tbl_case, error, inVars, metaVars,
                 walkVars, loopVars, cntVars>>

\* CreateResultFail with the error of line 1245 only logged: the walk begins
CreateResultFail_Continues ==
  /\ pc = "create" /\ ~args.dryrun
  /\ calls' = Append(calls, Call("result", FALSE))
  /\ pc' = "suites"
  /\ UNCHANGED <<dbVars, error, inVars, metaVars, walkVars, loopVars, cntVars>>

\* line 1231 raises: caught in line 1244
CreateResultFail ==
  /\ pc = "create" /\ ~args.dryrun
  /\ calls' = Append(calls, Call("result", FALSE))
  /\ Fatal("storage")
  /\ UNCHANGED <<dbVars, inVars, metaVars, walkVars, loopVars, cntVars>>

\* ProcessSuite without lines 936-937: the file of the suite before is kept
ProcessSuite_KeepsFile ==
  /\ pc = "suites" /\ suite_idx <= Len(pytest_result.suites)
  /\ tbl_file_time_start' = CurrentSuite.timestamp
  /\ test_start_time' = strptime(CurrentSuite.timestamp, PYTEST_DATETIME_FORMAT)
  /\ tbl_file_time_end' =
       strftime(strptime(CurrentSuite.timestamp, PYTEST_DATETIME_FORMAT)
                  + CurrentSuite.time, DB_DATETIME_FORMAT)
  /\ test_number' = 1
  /\ test_idx' = 1
  /\ pc' = "tests"
  /\ UNCHANGED <<dbVars, error, inVars, metaVars, suite_idx, cntVars, calls,
                 previous_file_name, tbl_file_id>>

\* line 1247 with lines 936-944: enter process_suite for the next suite
ProcessSuite ==
  /\ pc = "suites" /\ suite_idx <= Len(pytest_result.suites)
  /\ previous_file_name' = <<>>
  /\ tbl_file_id' = NoFileId
  /\ tbl_file_time_start' = CurrentSuite.timestamp
  /\ test_start_time' = strptime(CurrentSuite.timestamp, PYTEST_DATETIME_FORMAT)
  /\ tbl_file_time_end' =
       strftime(strptime(CurrentSuite.timestamp, PYTEST_DATETIME_FORMAT)
                  + CurrentSuite.time, DB_DATETIME_FORMAT)
  /\ test_number' = 1
  /\ test_idx' = 1
  /\ pc' = "tests"
  /\ UNCHANGED <<dbVars, error, inVars, metaVars, suite_idx, cntVars, calls>>

\* EndSuites without the test of line 1250: a dry run finalises as well
EndSuites_AlwaysFinalizes ==
  /\ pc = "suites" /\ suite_idx > Len(pytest_result.suites)
  /\ pc' = "evtbls"
  /\ UNCHANGED <<dbVars, error, inVars, metaVars, walkVars, loopVars, cntVars, calls>>

\* line 1247: no suite is left; line 1250
EndSuites ==
  /\ pc = "suites" /\ suite_idx > Len(pytest_result.suites)
  /\ pc' = IF args.dryrun THEN "disconnect" ELSE "evtbls"
  /\ UNCHANGED <<dbVars, error, inVars, metaVars, walkVars, loopVars, cntVars, calls>>

\* lines 945-949 and 1038-1043: the next test case of the suite
NextTest ==
  /\ pc = "tests" /\ test_idx <= Len(CurrentSuite.tests)
  /\ IF OpensFile(previous_file_name, CurrentTest.classname)
       THEN pc' = "file" /\ error' = error
       ELSE IF Truthy(tbl_file_id)
              THEN pc' = "case" /\ error' = error
              ELSE Fatal("no_file_id")
  /\ UNCHANGED <<dbVars, inVars, metaVars, walkVars, loopVars, cntVars, calls>>

\* line 945: the suite has no further test case; process_suite returns
EndTests ==
  /\ pc = "tests" /\ test_idx > Len(CurrentSuite.tests)
  /\ suite_idx' = suite_idx + 1
  /\ pc' = "suites"
  /\ UNCHANGED <<dbVars, error, inVars, metaVars, walkVars, test_idx, cntVars, calls>>

NewFileRow ==
  [ file_id        |-> 0,
    name           |-> CurrentTest.classname,
    tester_account |-> dConfig.tester,
    time_start     |-> tbl_file_time_start,
    time_end       |-> tbl_file_time_end,
    test_result_id |-> tbl_test_result_id ]

\* lines 989-996 and 1032-1035
CreateFile ==
  /\ pc = "file"
  /\ IF args.dryrun
       THEN /\ tbl_file_id' = DryrunFileId
            /\ previous_file_name' = CurrentTest.classname
            /\ pc' = "case"
            /\ UNCHANGED <<tbl_file, calls>>
       ELSE /\ tbl_file' = nCreateNewFile(tbl_file, NewFileRow)
            /\ tbl_file_id' = DbFileId(Len(tbl_file) + 1)
            /\ calls' = Append(calls, Call("file", TRUE))
            /\ pc' = "header"
            /\ UNCHANGED previous_file_name
  /\ UNCHANGED <<tbl_result, tbl_header, tbl_case, error, inVars, metaVars,
                 tbl_file_time_start, tbl_file_time_end, test_number,
                 test_start_time, loopVars, cntVars>>

\* line 991 raises: fatal in line 1030
CreateFileFail ==
  /\ pc = "file" /\ ~args.dryrun
  /\ calls' = Append(calls, Call("file", FALSE))
  /\ Fatal("storage")
  /\ UNCHANGED <<dbVars, inVars, metaVars, walkVars, loopVars, cntVars>>

NewHeaderRow ==
  [ file_id     |-> tbl_file_id.n,
    projectname |-> dConfig.variant,
    testfile    |-> CurrentTest.classname,
    author      |-> dConfig.tester,
    project     |-> dConfig.variant ]

\* lines 997-1028 and 1034-1035
CreateHeader ==
  /\ pc = "header"
  /\ tbl_header' = vCreateNewHeader(tbl_header, NewHeaderRow)
  /\ calls' = Append(calls, Call("header", TRUE))
  /\ previous_file_name' = CurrentTest.classname
  /\ pc' = "case"
  /\ UNCHANGED <<tbl_result, tbl_file, tbl_case, error, inVars, metaVars,
                 tbl_file_id, tbl_file_time_start, tbl_file_time_end,
                 test_number, test_start_time, loopVars, cntVars>>

\* line 997 raises: fatal in line 1030
CreateHeaderFail ==
  /\ pc = "header"
  /\ calls' = Append(calls, Call("header", FALSE))
  /\ Fatal("storage")
  /\ UNCHANGED <<dbVars, inVars, metaVars, walkVars, loopVars, cntVars>>

\* Tally with the new key of line 853 opened at 1
Tally_OpensAtOne(counter, component) ==
  IF component \in DOMAIN counter THEN counter ELSE (component :> 1) @@ counter

\* lines 852-853: the first test case of a component opens its tally
Tally(counter, component) ==
  IF component \in DOMAIN counter THEN counter ELSE (component :> 0) @@ counter

NewCaseRow ==
  [ testnumber     |-> test_number,
    component      |-> process_component_info(dConfig, CurrentTest.classname),
    time_start     |-> strftime(test_start_time, DB_DATETIME_FORMAT),
    result_main    |-> get_test_result(CurrentTest).result_main,
    result_state   |-> "complete",
    result_return  |-> 11,
    test_result_id |-> tbl_test_result_id,
    file_id        |-> tbl_file_id.n ]

\* lines 1039-1041 with process_test, lines 840-895
ProcessTest ==
  /\ pc = "case"
  /\ LET component == process_component_info(dConfig, CurrentTest.classname)
         counter   == Tally(dComponentCounter, component)
     IN  /\ iTotalTestcase' = iTotalTestcase + 1
         /\ iSuccessTestcase' = iSuccessTestcase + 1
         /\ dComponentCounter' = [counter EXCEPT ![component] = @ + 1]
  /\ IF args.dryrun
       THEN UNCHANGED <<tbl_case, calls>>
       ELSE /\ tbl_case' = nCreateNewSingleTestCase(tbl_case, NewCaseRow)
            /\ calls' = Append(calls, Call("case", TRUE))
  /\ test_start_time' = test_start_time + CurrentTest.time
  /\ test_number' = test_number + 1
  /\ test_idx' = test_idx + 1
  /\ pc' = "tests"
  /\ UNCHANGED <<tbl_result, tbl_file, tbl_header, error, inVars, metaVars,
                 previous_file_name, tbl_file_id, tbl_file_time_start,
                 tbl_file_time_end, suite_idx>>

\* ProcessTestFail with the missing duration taken as 0: the walk goes on
ProcessTestFail_Continues ==
  /\ pc = "case" /\ ~args.dryrun
  /\ iTotalTestcase' = iTotalTestcase + 1
  /\ dComponentCounter' =
       Tally(dComponentCounter, process_component_info(dConfig, CurrentTest.classname))
  /\ calls' = Append(calls, Call("case", FALSE))
  /\ test_number' = test_number + 1
  /\ test_idx' = test_idx + 1
  /\ pc' = "tests"
  /\ UNCHANGED <<dbVars, error, inVars, metaVars, previous_file_name, tbl_file_id,
                 tbl_file_time_start, tbl_file_time_end, test_start_time,
                 suite_idx, iSuccessTestcase>>

\* line 869 raises: process_test logs the error and returns None (line 887),
\* and timedelta(seconds=None) in line 1040 raises a TypeError nothing catches
ProcessTestFail ==
  /\ pc = "case" /\ ~args.dryrun
  /\ iTotalTestcase' = iTotalTestcase + 1
  /\ dComponentCounter' =
       Tally(dComponentCounter, process_component_info(dConfig, CurrentTest.classname))
  /\ calls' = Append(calls, Call("case", FALSE))
  /\ Crash("TypeError")
  /\ UNCHANGED <<dbVars, inVars, metaVars, walkVars, loopVars, iSuccessTestcase>>

\* line 1251
UpdateEvtbls ==
  /\ pc = "evtbls"
  /\ calls' = Append(calls, Call("evtbls", TRUE))
  /\ pc' = "finish"
  /\ UNCHANGED <<dbVars, error, inVars, metaVars, walkVars, loopVars, cntVars>>

\* FinishTestResult without the test of line 1253: the append-specific
\* refresh follows every finish
FinishTestResult_NoAppendTest ==
  /\ pc = "finish"
  /\ tbl_result' = vFinishTestResult(tbl_result, tbl_test_result_id)
  /\ calls' = Append(calls, Call("finish", TRUE))
  /\ pc' = "evtbl"
  /\ UNCHANGED <<tbl_file, tbl_header, tbl_case, error, inVars, metaVars,
                 walkVars, loopVars, cntVars>>

\* line 1252 and the test of line 1253
FinishTestResult ==
  /\ pc = "finish"
  /\ tbl_result' = vFinishTestResult(tbl_result, tbl_test_result_id)
  /\ calls' = Append(calls, Call("finish", TRUE))
  /\ pc' = IF args.append THEN "evtbl" ELSE "disconnect"
  /\ UNCHANGED <<tbl_file, tbl_header, tbl_case, error, inVars, metaVars,
                 walkVars, loopVars, cntVars>>

\* line 1254
UpdateEvtbl ==
  /\ pc = "evtbl"
  /\ calls' = Append(calls, Call("evtbl", TRUE))
  /\ pc' = "disconnect"
  /\ UNCHANGED <<dbVars, error, inVars, metaVars, walkVars, loopVars, cntVars>>

\* lines 1251-1254: a call of the finalisation raises, outside every try
FinalizeFail ==
  /\ pc \in {"evtbls", "finish", "evtbl"}
  /\ calls' = Append(calls, Call(pc, FALSE))
  /\ Crash("storage")
  /\ UNCHANGED <<dbVars, inVars, metaVars, walkVars, loopVars, cntVars>>

\* lines 1256-1270: disconnect and report; max() of an empty tally raises
\* a ValueError in line 1268
Disconnect ==
  /\ pc = "disconnect"
  /\ IF DOMAIN dComponentCounter = {}
       THEN Crash("ValueError")
       ELSE pc' = "done" /\ error' = error
  /\ UNCHANGED <<dbVars, inVars, metaVars, walkVars, loopVars, cntVars, calls>>

\* ----------------------------------------------------------------- inputs
Test(classname, time) == [classname |-> classname, time |-> time, children |-> {}]
Suite(stamp, time, tests) == [timestamp |-> Stamp(stamp), time |-> time, tests |-> tests]

\* two report documents of one suite each
ReportA == <<Suite(3, 2, <<Test(<<"a">>, 1)>>)>>
ReportB == <<Suite(1, 1, <<Test(<<"b">>, 1)>>)>>

ArgsSet ==
  [ append   : BOOLEAN,
    UUID     : {None, <<"u1">>},
    dryrun   : BOOLEAN,
    variant  : {None, <<"V">>},
    versions : {None, <<"1">>} ]

NoConfig == <<>>

Inputs ==
  [ args : ArgsSet, config : {NoConfig}, xmlfiles : {<<ReportA>>, <<ReportB>>} ]

Start == nruns < MaxRuns /\ \E in \in Inputs : StartRun(in)

\* every step of a run that does not append
StepsCreate ==
  \/ Connect \/ ConnectFail
  \/ Lookup \/ LookupFail
  \/ CreateResult \/ CreateResultFail
  \/ ProcessSuite \/ EndSuites
  \/ NextTest \/ EndTests
  \/ CreateFile \/ CreateFileFail
  \/ CreateHeader \/ CreateHeaderFail
  \/ ProcessTest \/ ProcessTestFail
  \/ UpdateEvtbls \/ FinishTestResult \/ FinalizeFail
  \/ Disconnect

Next == Start \/ StepsCreate \/ UpdateEvtbl

\* sequential invocations of the importer on one database
Spec == Init /\ [][Next]_vars

\* ------------------------------------------- one import, any suite content
ClassNames == {<<>>, <<"a">>, <<"b">>}

TestsOfLen(n) ==
  [1..n -> [classname : ClassNames, time : 0..MaxTime, children : {{}}]]

WalkSuites ==
  { Suite(1, MaxTime, tests) : tests \in UNION {TestsOfLen(n) : n \in 0..MaxTests} }

WalkInputs ==
  [ args : {[NoArgs EXCEPT !.UUID = <<"u1">>]},
    config : {NoConfig},
    xmlfiles : {<<<<s>>>> : s \in WalkSuites} ]

StartWalk == nruns = 0 /\ \E in \in WalkInputs : StartRun(in)

NextWalk == StartWalk \/ StepsCreate

SpecWalk == Init /\ [][NextWalk]_vars

\* --------------------------------------- the merge of the report documents
TimedSuites == {Suite(stamp, time, <<>>) : stamp \in 0..MaxStamp, time \in 0..MaxTime}

Reports == UNION {[1..n -> TimedSuites] : n \in 1..2}

MergeInputs ==
  [ args : {NoArgs}, config : {NoConfig},
    xmlfiles : UNION {[1..n -> Reports] : n \in 1..2} ]

StartMerge == nruns = 0 /\ \E in \in MergeInputs : StartRun(in)

SpecMerge == Init /\ [][StartMerge]_vars

\* ------------------------ sequential imports of a report with two suites
ReportTwoSuites ==
  << Suite(1, 2, <<Test(<<"a">>, 1), Test(<<"b">>, 1)>>),
     Suite(3, 1, <<Test(<<"a">>, 1)>>) >>

\* a report whose only suite ran no test
ReportNoTest == <<Suite(1, 0, <<>>)>>

FinalInputs ==
  [ args : [ append : BOOLEAN, UUID : {None, <<"u1">>}, dryrun : BOOLEAN,
             variant : {None}, versions : {None} ],
    config : {NoConfig},
    xmlfiles : {<<ReportTwoSuites>>, <<ReportNoTest>>} ]

StartFinal == nruns < MaxRuns /\ \E in \in FinalInputs : StartRun(in)

NextFinal == StartFinal \/ StepsCreate \/ UpdateEvtbl

SpecFinal == Init /\ [][NextFinal]_vars

\* ------------------------- one import of up to three suites, any timing
\* a suite that took some time ran one test, a suite of no duration none
WindowSuites ==
  { Suite(stamp, time, IF time = 0 THEN <<>> ELSE <<Test(<<"a">>, time)>>) :
      stamp \in 0..MaxStamp, time \in 0..MaxTime }

WindowReport(n) == [1..n -> WindowSuites]

\* report files in every order: one file of up to three suites, or the
\* three suites spread over two or three files
WindowFiles ==
  {<<d>> : d \in WindowReport(1) \cup WindowReport(2) \cup WindowReport(3)}
    \cup {<<d, e>> : d \in WindowReport(1), e \in WindowReport(1) \cup WindowReport(2)}
    \cup {<<d, e>> : d \in WindowReport(2), e \in WindowReport(1)}
    \cup {<<d, e, f>> : d \in WindowReport(1), e \in WindowReport(1),
                        f \in WindowReport(1)}

WindowInputs ==
  [ args : {[NoArgs EXCEPT !.UUID = <<"u1">>]}, config : {NoConfig},
    xmlfiles : WindowFiles ]

StartWindow == nruns = 0 /\ \E in \in WindowInputs : StartRun(in)

NextWindow == StartWindow \/ StepsCreate

SpecWindow == Init /\ [][NextWindow]_vars

\* ------------------------------------- one import: the metadata of the run
\* a value one character longer than the database keeps
LongName == [i \in 1..(MaxFieldLen + 1) |-> "L"]

MetaVariants == {None, <<" ">>, <<"V">>, <<" ","V"," ">>, LongName}

\* --versions: nothing, blank, 1, 1;2, 1;2;3, ;2, " 1; 2 ;", a long value
MetaVersions ==
  { None, <<" ">>, <<"1">>, <<"1",";","2">>, <<"1",";","2",";","3">>,
    <<";","2">>, <<" ","1",";"," ","2"," ",";">>, LongName }

MetaConfigs ==
  { NoConfig,
    [variant |-> <<"C">>],
    [version_sw |-> <<"c">>, version_hw |-> <<"h">>, version_test |-> <<"t">>],
    [variant |-> <<"C">>, version_sw |-> <<"c">>, version_hw |-> <<"h">>,
     version_test |-> <<"t">>],
    [version_sw |-> <<" ">>] }

MetaInputs ==
  [ args : [ append : {FALSE}, UUID : {<<"u1">>}, dryrun : {FALSE},
             variant : MetaVariants, versions : MetaVersions ],
    config : MetaConfigs,
    xmlfiles : {<<ReportA>>, <<ReportB, ReportA>>} ]

StartMeta == nruns = 0 /\ \E in \in MetaInputs : StartRun(in)

NextMeta == StartMeta \/ StepsCreate

SpecMeta == Init /\ [][NextMeta]_vars

\* ------------------------- one import: the software version and its branch
VersionAlphabet == {"0", "1", ".", "F", ","}

\* the software versions of the examples: 17.0F03, 22.1S05, 22.1s05 and
\* nonconforming
VersionExamples ==
  { <<"1","7",".","0","F","0","3">>, <<"2","2",".","1","S","0","5">>,
    <<"2","2",".","1","s","0","5">>,
    <<"n","o","n","c","o","n","f","o","r","m","i","n","g">> }

VersionStrings ==
  UNION {[1..n -> VersionAlphabet] : n \in 0..MaxVersionLen} \cup VersionExamples

BranchInputs ==
  [ args : {[NoArgs EXCEPT !.UUID = <<"u1">>]},
    config : {[version_sw |-> v] : v \in VersionStrings},
    xmlfiles : {<<ReportA>>} ]

StartBranch == nruns = 0 /\ \E in \in BranchInputs : StartRun(in)

NextBranch == StartBranch \/ StepsCreate

SpecBranch == Init /\ [][NextBranch]_vars

\* ------------------- one import: test outcomes and the component mapping
\* the child elements a testcase element may carry
Outcomes == {{}, {"failure"}, {"error"}, {"skipped"}, {"failure", "error"}}

CaseClassNames == {<<"x","y","z">>, <<"x">>, <<"z">>}

Str(chars) == [type |-> "str", v |-> chars]
Item(key, val) == [key |-> key, val |-> val]
Dict(items) == [type |-> "dict", items |-> items]

\* values of "components" in the configuration file: a label, a blank
\* string, and mappings in several declaration orders
ComponentsSet ==
  { Str(<<"C">>), Str(<<" ">>), Str(<<" ","C">>), Str(<<>>),
    Dict(<<Item(<<"A">>, [type |-> "list", v |-> <<<<"x">>>>]),
           Item(<<"B">>, Str(<<"x","y">>))>>),
    Dict(<<Item(<<"B">>, Str(<<"x","y">>)),
           Item(<<"A">>, [type |-> "list", v |-> <<<<"x">>>>])>>),
    Dict(<<Item(<<"A">>, [type |-> "list", v |-> <<<<"q">>, <<"y","z">>>>]),
           Item(<<"B">>, Str(<<"z">>))>>),
    Dict(<<Item(<<"A">>, Str(<<"q">>))>>) }

CaseTestsOfLen(n) ==
  [1..n -> [classname : CaseClassNames, time : {1}, children : Outcomes]]

CaseInputs ==
  [ args : {[NoArgs EXCEPT !.UUID = <<"u1">>]},
    config : {[components |-> c] : c \in ComponentsSet},
    xmlfiles : {<<<<Suite(1, 2, tests)>>>> :
                  tests \in CaseTestsOfLen(1) \cup CaseTestsOfLen(2)} ]

StartCases == nruns = 0 /\ \E in \in CaseInputs : StartRun(in)

NextCases == StartCases \/ StepsCreate

SpecCases == Init /\ [][NextCases]_vars

\* ================================================================= claims
\* the lookup of the running importer has answered
LookupAnswered == Len(calls) > 0 /\ calls[1] = Call("lookup", TRUE)

\* what the lookup found for the identifier of the run
StoredInfo == arGetProjectVersionSWByID(db0[1], tbl_test_result_id)

\* the run has issued no database call but the lookup and changed no table
NothingWritten == dbVars = db0 /\ calls = <<Call("lookup", TRUE)>>

\* the rows a run has added to a table
Added(tbl, before) == SubSeq(tbl, Len(before) + 1, Len(tbl))

OkCalls(op) == Cardinality({i \in 1..Len(calls) : calls[i].op = op /\ calls[i].ok})

\* C1: a create-mode run whose explicit identifier the lookup finds in the
\* database aborts with the duplicate-identifier error and writes nothing:
\* the tables stay as the earlier imports left them.
C1_DuplicateAborts ==
  (LookupAnswered /\ ~args.append /\ args.UUID # None /\ Len(StoredInfo) > 0)
    => (pc = "aborted" /\ error = "duplicate" /\ NothingWritten)

\* the same document imported a second time under the same explicit identifier
C1_Witness ==
  /\ pc = "aborted" /\ error = "duplicate" /\ args.UUID # None /\ ~args.dryrun
  /\ Len(tbl_case) > 0 /\ Len(tbl_file) > 0
  /\ tbl_file[1].name = pytest_result.suites[1].tests[1].classname
  /\ tbl_result[1].state = "finished"

\* C2: whatever runs came before, the database holds at most one
\* execution result per identifier.
C2_OneResultPerIdentifier ==
  \A i, j \in 1..Len(tbl_result) :
    tbl_result[i].test_result_id = tbl_result[j].test_result_id => i = j

\* a second run on an identifier of the database has completed
C2_Witness ==
  /\ nruns = 2 /\ pc = "done" /\ ~args.dryrun
  /\ LookupAnswered /\ Len(StoredInfo) > 0
  /\ Len(tbl_result) = 1

\* the append run names the variant and the software version of the result
AppendSameMetadata ==
  /\ args.append /\ LookupAnswered /\ Len(StoredInfo) > 0
  /\ tbl_prj_variant = StoredInfo[1]
  /\ \/ tbl_result_version_sw_target = StoredInfo[2]
     \/ Versions(args) = <<>> /\ dConfig.version_sw = DEFAULT_METADATA.version_sw

\* C3: an append run on an existing identifier with the same variant and
\* software version is accepted, creates no execution result, writes files
\* and cases of that identifier only, and leaves one result that owns the
\* files of both runs.
C3_AppendSucceeds ==
  AppendSameMetadata =>
    /\ error \notin {"conflict_variant", "conflict_version", "duplicate",
                     "nothing_to_append"}
    /\ Len(tbl_result) = Len(db0[1])
    /\ OkCalls("result") = 0
    /\ \A i \in 1..Len(Added(tbl_file, db0[2])) :
         Added(tbl_file, db0[2])[i].test_result_id = tbl_test_result_id
    /\ \A i \in 1..Len(Added(tbl_case, db0[4])) :
         Added(tbl_case, db0[4])[i].test_result_id = tbl_test_result_id
    /\ Cardinality({i \in 1..Len(tbl_result) :
                      tbl_result[i].test_result_id = tbl_test_result_id}) = 1
    /\ (pc = "done" /\ ~args.dryrun) =>
         /\ SubSeq(tbl_file, 1, Len(db0[2])) = db0[2]
         /\ Len(tbl_file) > Len(db0[2])

\* a completed import followed by a completed append with an explicit variant
C3_Witness ==
  /\ AppendSameMetadata /\ pc = "done" /\ ~args.dryrun
  /\ ~bUseDefaultPrjVariant
  /\ Len(db0[2]) > 0 /\ db0[1][1].state = "finished"
  /\ Len(tbl_file) = 2 /\ Len(tbl_case) = 2
  /\ tbl_file[1].test_result_id = tbl_file[2].test_result_id

\* the software version the user supplied, before the start time replaces
\* an empty one
SuppliedVersionSW == ResolveVersions(Versions(args), dConfig).sVersionSW

AppendOtherMetadata ==
  /\ args.append /\ LookupAnswered /\ Len(StoredInfo) > 0
  /\ \/ /\ tbl_prj_variant # DEFAULT_METADATA.variant
        /\ tbl_prj_variant # StoredInfo[1]
     \/ /\ SuppliedVersionSW # DEFAULT_METADATA.version_sw
        /\ SuppliedVersionSW # StoredInfo[2]

\* C4: an append run whose supplied, non-default variant or software version
\* differs from the stored one aborts with a metadata conflict and writes
\* nothing.
C4_MetadataConflictAborts ==
  AppendOtherMetadata =>
    /\ pc = "aborted"
    /\ error \in {"conflict_variant", "conflict_version"}
    /\ NothingWritten

\* rejected for the software version alone, on a result that has files
C4_Witness ==
  /\ AppendOtherMetadata /\ error = "conflict_version" /\ ~args.dryrun
  /\ Len(tbl_file) > 0

\* C5: an append run whose identifier the lookup does not find aborts
\* (nothing to append to) and writes nothing.
C5_NothingToAppendTo ==
  (args.append /\ LookupAnswered /\ Len(StoredInfo) = 0)
    => (pc = "aborted" /\ error = "nothing_to_append" /\ NothingWritten)

\* refused although the database holds a result of another identifier
C5_Witness ==
  /\ args.append /\ ~args.dryrun /\ error = "nothing_to_append"
  /\ Len(tbl_result) > 0

\* C6: a database call that fails is the last call of its run, the run has
\* ended, and the rows written before it are all in the tables.
C6_WriteFailureAborts ==
  /\ \A i \in 1..(Len(calls) - 1) : calls[i].ok
  /\ (Len(calls) > 0 /\ ~calls[Len(calls)].ok) => pc \in {"aborted", "crashed"}
  /\ Len(tbl_result) = Len(db0[1]) + OkCalls("result")
  /\ Len(tbl_file) = Len(db0[2]) + OkCalls("file")
  /\ Len(tbl_header) = Len(db0[3]) + OkCalls("header")
  /\ Len(tbl_case) = Len(db0[4]) + OkCalls("case")
  /\ SubSeq(tbl_file, 1, Len(db0[2])) = db0[2]
  /\ SubSeq(tbl_header, 1, Len(db0[3])) = db0[3]
  /\ SubSeq(tbl_case, 1, Len(db0[4])) = db0[4]

\* the creation of a case fails after the result, the file and the header
\* were written
C6_Witness ==
  /\ pc = "crashed" /\ calls[Len(calls)] = Call("case", FALSE)
  /\ Len(tbl_result) = 1 /\ Len(tbl_file) = 1 /\ Len(tbl_header) = 1
  /\ Len(tbl_case) = 0

\* -------------------------------------------------------------- the merge
SuiteStart(oSuite) == strptime(oSuite.timestamp, PYTEST_DATETIME_FORMAT)
SuiteEnd(oSuite) == SuiteStart(oSuite) + oSuite.time

MinOf(S) == CHOOSE m \in S : \A x \in S : m <= x
MaxOf(S) == CHOOSE m \in S : \A x \in S : m >= x

MergedSuites == {pytest_result.suites[i] : i \in 1..Len(pytest_result.suites)}

\* C7: the merged root carries the least suite timestamp as start time and
\* the greatest timestamp + duration as end time, over all suites of all
\* documents (both in the format of the database).
C7_MergedWindow ==
  (pc = "connect") =>
    /\ pytest_result.starttime =
         strftime(MinOf({SuiteStart(x) : x \in MergedSuites}), DB_DATETIME_FORMAT)
    /\ pytest_result.endtime =
         strftime(MaxOf({SuiteEnd(x) : x \in MergedSuites}), DB_DATETIME_FORMAT)

\* ------------------------------------------------------------ the suite walk
\* the first class name of every maximal run of equal class names
RECURSIVE RunHeads(_)
RunHeads(names) ==
  IF Len(names) <= 1 THEN names
  ELSE LET front == SubSeq(names, 1, Len(names) - 1)
       IN  IF names[Len(names)] = names[Len(names) - 1]
             THEN RunHeads(front)
             ELSE Append(RunHeads(front), names[Len(names)])

\* the class names of the test cases of the suite that have been written
WalkedClassNames ==
  [i \in 1..(test_idx - 1) |-> CurrentSuite.tests[i].classname]

\* C8: the walk of a suite creates one file per maximal run of equal class
\* names, in order, and leaves no run without a file (whatever the first
\* class name is).
C8_FilePerRun ==
  /\ error # "no_file_id"
  /\ (pc = "tests" /\ ~args.dryrun) =>
       [i \in 1..Len(Added(tbl_file, db0[2])) |-> Added(tbl_file, db0[2])[i].name]
         = RunHeads(WalkedClassNames)

\* C9: the ordinal of a test case is its position among the cases of its
\* own file, starting at 1 in every file.
C9_OrdinalWithinFile ==
  \A k \in 1..Len(tbl_case) :
    tbl_case[k].testnumber =
      Cardinality({j \in 1..k : tbl_case[j].file_id = tbl_case[k].file_id})

FileOf(case) == CHOOSE f \in 1..Len(tbl_file) : tbl_file[f].file_id = case.file_id
CaseStart(k) == strptime(tbl_case[k].time_start, DB_DATETIME_FORMAT)
FirstOfFile(k) == k = 1 \/ tbl_case[k - 1].file_id # tbl_case[k].file_id

\* C10: the first case of a file starts when its file starts, each later
\* case starts when the case before it ends (both to the second, the
\* precision of the database), and the start times of a file never decrease.
C10_CaseStartChain ==
  \A k \in 1..Len(tbl_case) :
    IF FirstOfFile(k)
      THEN tbl_case[k].time_start =
             strftime(strptime(tbl_file[FileOf(tbl_case[k])].time_start,
                               PYTEST_DATETIME_FORMAT), DB_DATETIME_FORMAT)
      ELSE LET ends == CaseStart(k - 1) + pytest_result.suites[1].tests[k - 1].time
           IN  /\ CaseStart(k) > ends - Frac
               /\ CaseStart(k) < ends + Frac
               /\ CaseStart(k) >= CaseStart(k - 1)

\* ------------------------------------------------------ the test outcomes
\* the test case element a case row of a one-suite import was written for
TestOfCase(k) == pytest_result.suites[1].tests[k]

\* C11: the return code written for a test case is the one of its outcome:
\* 11 passed, 12 failure element, 5 error element, 20 skipped.
C11_ReturnCode ==
  \A k \in 1..Len(tbl_case) :
    tbl_case[k].result_return =
      ( IF "failure" \in TestOfCase(k).children THEN 12
        ELSE IF "error" \in TestOfCase(k).children THEN 5
        ELSE IF "skipped" \in TestOfCase(k).children THEN 20
        ELSE 11 )

\* ------------------------------------------------------- the finalisation
FinalCalls == {"evtbls", "finish", "evtbl"}

RECURSIVE CountTests(_)
CountTests(suites) ==
  IF suites = <<>> THEN 0 ELSE Len(Head(suites).tests) + CountTests(Tail(suites))

\* the run came through the walk and the finalisation
Finalized ==
  pc \in {"disconnect", "done"} \/ (pc = "crashed" /\ error = "ValueError")

LastCalls(n) == SubSeq(calls, Len(calls) - n + 1, Len(calls))

Unknown == <<"u","n","k","n","o","w","n">>

\* the patterns declared for a label: the entries of a list, or one string
PatternsOf(val) ==
  IF val.type = "list" THEN {val.v[k] : k \in 1..Len(val.v)} ELSE {val.v}

\* the declared positions of the labels of which a pattern is in the name
Hits(items, name) ==
  {i \in 1..Len(items) : \E p \in PatternsOf(items[i].val) : IsSubstring(p, name)}

\* the mapping of the example: {"A": ["x"], "B": "xy"}
ExampleMapping ==
  Dict(<<Item(<<"A">>, [type |-> "list", v |-> <<<<"x">>>>]),
         Item(<<"B">>, Str(<<"x","y">>))>>)

\* C13: with a mapping as components, the component written for a test case
\* is the label declared first among those with a pattern that is a
\* substring of the class name, and unknown when there is none; the example
\* mapping gives class name xyz the label A; equal class names get equal
\* labels.
C13_FirstLabelWins ==
  dConfig.components.type = "dict" =>
    /\ \A k \in 1..Len(tbl_case) :
         LET items == dConfig.components.items
             hits  == Hits(items, TestOfCase(k).classname)
         IN  /\ hits = {} => tbl_case[k].component = Unknown
             /\ hits # {} => tbl_case[k].component = items[MinOf(hits)].key
    /\ \A k \in 1..Len(tbl_case) :
         (dConfig.components = ExampleMapping
            /\ TestOfCase(k).classname = <<"x","y","z">>)
           => tbl_case[k].component = <<"A">>
    /\ \A k, l \in 1..Len(tbl_case) :
         TestOfCase(k).classname = TestOfCase(l).classname
           => tbl_case[k].component = tbl_case[l].component

\* the example: class name xyz, which the patterns of A and of B are both in
C13_Witness ==
  /\ dConfig.components = ExampleMapping
  /\ Len(tbl_case) = 2
  /\ TestOfCase(1).classname = <<"x","y","z">> /\ tbl_case[1].component = <<"A">>
  /\ Hits(dConfig.components.items, <<"x","y","z">>) = {1, 2}
  /\ TestOfCase(2).classname = <<"z">> /\ tbl_case[2].component = Unknown

\* C14 as claimed: with a non-empty string as components, also one of
\* whitespace only, that string is the component written for every case.
C14_StringLabel ==
  (dConfig.components.type = "str" /\ dConfig.components.v # <<>>) =>
    \A k \in 1..Len(tbl_case) : tbl_case[k].component = dConfig.components.v

NotBlank(chars) == \E i \in 1..Len(chars) : chars[i] # " "

\* C14 amended: with a string as components that has a character other
\* than whitespace, that string as it stands is the component written for
\* every case; with an empty or blank string the component is unknown.
C14_StringLabelNotBlank ==
  dConfig.components.type = "str" =>
    \A k \in 1..Len(tbl_case) :
      tbl_case[k].component =
        (IF NotBlank(dConfig.components.v) THEN dConfig.components.v ELSE Unknown)

\* a blank string gave unknown
C14_Witness ==
  /\ dConfig.components = Str(<<" ">>)
  /\ Len(tbl_case) = 2 /\ tbl_case[2].component = Unknown
  /\ TestOfCase(1).classname # TestOfCase(2).classname

\* ------------------------------------------------------------- the branch
Main == <<"m","a","i","n">>

\* the convention <year>.<seq><F|S><build>: the places (i, k) where a match
\* of digits, dot, digits, F or S, digit starts and where its letter is
ConventionMatches(s) ==
  { m \in (1..Len(s)) \X (1..Len(s)) :
      \E j \in (m[1] + 1)..(m[2] - 2) :
        /\ \A n \in m[1]..(j - 1) : IsDigit(s[n])
        /\ s[j] = "."
        /\ \A n \in (j + 1)..(m[2] - 1) : IsDigit(s[n])
        /\ s[m[2]] \in {"F", "S"}
        /\ m[2] + 1 <= Len(s) /\ IsDigit(s[m[2] + 1]) }

\* the branch of the convention: the leftmost match up to its letter, main
\* without a match or for a match that ends in .0F
ConventionBranch(version) ==
  LET s == upper(version)
      ms == ConventionMatches(s)
  IN  IF ms = {} THEN Main
      ELSE LET m == CHOOSE a \in ms : \A b \in ms : a[1] <= b[1]
               part == SubSeq(s, m[1], m[2])
           IN  IF endswith(part, <<".","0","F">>) THEN Main ELSE part

\* C15: the branch of every execution result is main when its software
\* version has no match of <year>.<seq><F|S><build> or the match ends in
\* .0F, and the matched <year>.<seq><F|S> otherwise; 17.0F03 gives main,
\* 22.1S05 gives 22.1S, nonconforming gives main.
C15_BranchDerivation ==
  \A r \in 1..Len(tbl_result) :
    /\ tbl_result[r].branch = ConventionBranch(tbl_result[r].version_sw_target)
    /\ tbl_result[r].version_sw_target = <<"1","7",".","0","F","0","3">>
         => tbl_result[r].branch = Main
    /\ tbl_result[r].version_sw_target = <<"2","2",".","1","S","0","5">>
         => tbl_result[r].branch = <<"2","2",".","1","S">>
    /\ tbl_result[r].version_sw_target
           = <<"n","o","n","c","o","n","f","o","r","m","i","n","g">>
         => tbl_result[r].branch = Main

\* ----------------------------------------------------------- the metadata
\* the variant of the command line, if one is supplied
SuppliedVariant == args.variant # None /\ NotBlank(args.variant)

\* command line before configuration file before default, for the variant
PreferredVariant ==
  IF SuppliedVariant THEN strip(args.variant) ELSE dConfig.variant

\* the same for field i of --versions; dConfig holds the value of the
\* configuration file where it has one and the default where it has none
PreferredVersion(i, key) ==
  IF Len(Versions(args)) >= i THEN Versions(args)[i] ELSE dConfig[key]

\* the start time of the merged document in compact form
CompactStart == <<"T", ToString(pytest_result.starttime.v)>>

\* C16 as claimed: project/variant and each of the three versions of an
\* execution result are the command-line value where one is supplied (a
\* --versions string supplies its first k fields), else the value of the
\* configuration file, else the default.
C16_Precedence ==
  \A r \in 1..Len(tbl_result) :
    /\ tbl_result[r].project = PreferredVariant
    /\ tbl_result[r].variant = PreferredVariant
    /\ tbl_result[r].version_sw_target = PreferredVersion(1, "version_sw")
    /\ tbl_result[r].version_hardware = PreferredVersion(2, "version_hw")
    /\ tbl_result[r].version_sw_test = PreferredVersion(3, "version_test")

\* C16 amended: as claimed for project/variant, hardware and test version;
\* the software version is the preferred value unless that is empty, and
\* the compact start time of the merged document when it is.
C16_PrecedenceOrStartTime ==
  \A r \in 1..Len(tbl_result) :
    /\ tbl_result[r].project = PreferredVariant
    /\ tbl_result[r].variant = PreferredVariant
    /\ tbl_result[r].version_sw_target =
         ( IF PreferredVersion(1, "version_sw") = <<>> THEN CompactStart
           ELSE PreferredVersion(1, "version_sw") )
    /\ tbl_result[r].version_hardware = PreferredVersion(2, "version_hw")
    /\ tbl_result[r].version_sw_test = PreferredVersion(3, "version_test")

\* --versions "1;2" over a configuration file that names all three
\* versions and the variant
C16_Witness ==
  /\ Len(tbl_result) = 1
  /\ args.versions = <<"1",";","2">> /\ args.variant = None
  /\ dConfig.version_test = <<"t">> /\ dConfig.version_hw = <<"h">>
  /\ tbl_result[1].version_sw_target = <<"1">>
  /\ tbl_result[1].version_hardware = <<"2">>
  /\ tbl_result[1].version_sw_test = <<"t">>
  /\ tbl_result[1].variant = <<"C">>

\* C17: no execution result has the empty string as software version; when
\* command line, configuration file and default leave it empty, it is the
\* compact start time of the merged document.
C17_VersionNeverEmpty ==
  \A r \in 1..Len(tbl_result) :
    /\ tbl_result[r].version_sw_target # <<>>
    /\ PreferredVersion(1, "version_sw") = <<>>
         => tbl_result[r].version_sw_target = CompactStart

\* the merged start time stands in for a software version nobody supplied,
\* here the one of the second report, which started first
C17_Witness ==
  /\ Len(tbl_result) = 1
  /\ args.versions = None /\ dConfig.version_sw = <<>>
  /\ Len(pytest_result.suites) = 2
  /\ tbl_result[1].version_sw_target = CompactStart
  /\ tbl_result[1].time_start.v = pytest_result.starttime.v

\* C19: no execution result holds a project, a variant or a target software
\* version longer than the database keeps for it.
C19_NoOverlongField ==
  \A r \in 1..Len(tbl_result) :
    /\ Len(tbl_result[r].project) <= MaxFieldLen
    /\ Len(tbl_result[r].variant) <= MaxFieldLen
    /\ Len(tbl_result[r].version_sw_target) <= MaxFieldLen

\* --------------------------------------------- the window of the result
\* C18: the start time of every execution result is not after its end
\* time, whatever the order of the report files and of their suites.
C18_StartBeforeEnd ==
  \A r \in 1..Len(tbl_result) :
    strptime(tbl_result[r].time_start, DB_DATETIME_FORMAT)
      <= strptime(tbl_result[r].time_end, DB_DATETIME_FORMAT)

\* a result of three report files, the second earlier than the first and
\* the third ending last
C18_Witness ==
  /\ Len(tbl_result) = 1 /\ Len(pytest_result.suites) = 3
  /\ SuiteStart(pytest_result.suites[2]) < SuiteStart(pytest_result.suites[1])
  /\ SuiteEnd(pytest_result.suites[3]) > SuiteEnd(pytest_result.suites[1])
  /\ tbl_result[1].time_start = pytest_result.starttime
  /\ tbl_result[1].time_end = pytest_result.endtime
  /\ tbl_result[1].time_start.v < tbl_result[1].time_end.v

\* ------------------------------------------------- append without a UUID
\* C20: a run with --append and without --UUID ends by a fatal error (that
\* of the connection, or the one that asks for --UUID) with no call to the
\* database issued, neither the lookup nor a write, and the tables as they
\* were: the generated identifier creates no result.
C20_AppendNeedsUUID ==
  (args.append /\ args.UUID = None) =>
    /\ pc \in {"connect", "aborted"}
    /\ pc = "aborted" => error \in {"connect", "append_without_uuid"}
    /\ calls = <<>>
    /\ dbVars = db0

\* refused although the generated identifier is the one of a result that
\* an earlier run created
C20_Witness ==
  /\ args.append /\ args.UUID = None /\ ~args.dryrun
  /\ pc = "aborted" /\ error = "append_without_uuid"
  /\ tbl_test_result_id \in GeneratedUUIDs
  /\ \E r \in 1..Len(tbl_result) :
       tbl_result[r].test_result_id = tbl_test_result_id
  /\ calls = <<>>

\* ------------------------------------------------------------------- C21
\* the answers of line 1203-1227 that end the run
Rejections == {"conflict_variant", "conflict_version", "duplicate", "nothing_to_append"}

\* what lines 1203-1227 decide for the running importer, dry run or not
RunDecision ==
  OpenDecision(StoredInfo, args.append, bUseDefaultPrjVariant, tbl_prj_variant,
               bUseDefaultVersionSW, tbl_result_version_sw_target)

\* C21: a dry run leaves every table as it found it and issues no call but
\* the lookup (no result, file, header or case creation, no refresh, no
\* finish); the lookup's answer ends it exactly when it would end a real run
C21_DryRunFrame ==
  args.dryrun =>
    /\ dbVars = db0
    /\ \A i \in 1..Len(calls) : calls[i].op = "lookup"
    /\ LookupAnswered =>
         IF RunDecision \in Rejections
           THEN pc = "aborted" /\ error = RunDecision
           ELSE pc # "aborted"

\* a dry run in create mode walked the three test cases of the report and
\* ended after the disconnect
C21_Witness ==
  /\ args.dryrun /\ ~args.append /\ pc = "done"
  /\ LookupAnswered /\ RunDecision = "create"
  /\ iSuccessTestcase = 3

\* ------------------------------------------------------------------- C22
\* the files of a result, and the cases of a file
FilesOf(id) == {f \in 1..Len(tbl_file) : tbl_file[f].test_result_id = id}
CasesOf(f) == {k \in 1..Len(tbl_case) : tbl_case[k].file_id = tbl_file[f].file_id}

\* C22: the result that a run has marked as finished contains at least one
\* file, and every file of it contains at least one case, whatever accepted
\* report was imported (a report whose suites hold no test case included)
C22_FinishedNotEmpty ==
  (~args.dryrun /\ OkCalls("finish") = 1) =>
    /\ \E r \in 1..Len(tbl_result) :
         /\ tbl_result[r].test_result_id = tbl_test_result_id
         /\ tbl_result[r].state = "finished"
    /\ FilesOf(tbl_test_result_id) # {}
    /\ \A f \in FilesOf(tbl_test_result_id) : CasesOf(f) # {}

\* ------------------------------------------------------------------- C23
\* the reported durations, in ticks, of the cases K of a one-suite import
RECURSIVE SumOfTimes(_)
SumOfTimes(K) ==
  IF K = {} THEN 0
  ELSE LET k == CHOOSE x \in K : TRUE
       IN  TestOfCase(k).time + SumOfTimes(K \ {k})

\* the written start of file f in ticks, and the start of its first case
FileStart(f) == strptime(tbl_file[f].time_start, tbl_file[f].time_start.fmt)
FirstCaseStart(f) == CaseStart(MinOf(CasesOf(f)))

\* t, in ticks, is the time a stored value names to the second
ToTheSecond(stored, t) ==
  /\ strptime(stored, DB_DATETIME_FORMAT) > t - Frac
  /\ strptime(stored, DB_DATETIME_FORMAT) < t + Frac

\* C23: once the walk of the suite is over, the end written for a file is the
\* file's own start (as written, or as the start of its first case) plus the
\* sum of the reported durations of the cases of the file, to the second
C23_FileEnd ==
  (~args.dryrun /\ pc \in {"evtbls", "finish", "disconnect", "done"}) =>
    \A f \in 1..Len(tbl_file) :
      \/ ToTheSecond(tbl_file[f].time_end, FileStart(f) + SumOfTimes(CasesOf(f)))
      \/ ToTheSecond(tbl_file[f].time_end, FirstCaseStart(f) + SumOfTimes(CasesOf(f)))

\* ------------------------- sequential imports of several report documents
DocA == <<Suite(3, 2, <<Test(<<"a">>, 1), Test(<<"a">>, 1)>>)>>
DocB == <<Suite(6, 1, <<Test(<<"b">>, 1)>>), Suite(0, 1, <<Test(<<"a">>, 1)>>)>>
\* a report document without any suite
DocNoSuite == <<>>

DocsInputs ==
  [ args : [ append : BOOLEAN, UUID : {<<"u1">>}, dryrun : {FALSE},
             variant : {None}, versions : {None} ],
    config : {NoConfig},
    xmlfiles : {<<DocA>>, <<DocA, DocB>>, <<DocB, DocA>>, <<DocB, DocNoSuite, DocA>>} ]

StartDocs == nruns < MaxRuns /\ \E in \in DocsInputs : StartRun(in)

NextDocs == StartDocs \/ StepsCreate \/ UpdateEvtbl

SpecDocs == Init /\ [][NextDocs]_vars

\* ------------------------------------------------------------------- C24
Write(op, name) == [op |-> op, name |-> name]

\* the writes the test cases of a suite ask for, in order: a file with its
\* header where the class name changes, and a case for every test case
RECURSIVE WritesOfTests(_, _)
WritesOfTests(tests, previous) ==
  IF tests = <<>> THEN <<>>
  ELSE LET name == Head(tests).classname
       IN  (IF name # previous THEN <<Write("file", name), Write("header", name)>>
            ELSE <<>>)
           \o <<Write("case", name)>>
           \o WritesOfTests(Tail(tests), name)

\* the writes the suites ask for, suite after suite
RECURSIVE WritesOfSuites(_)
WritesOfSuites(suites) ==
  IF suites = <<>> THEN <<>>
  ELSE WritesOfTests(Head(suites).tests, <<>>) \o WritesOfSuites(Tail(suites))

\* the writes the report documents ask for: document, suite, case
WritePlan == WritesOfSuites(Flatten(listEntries))

\* the file, header and case calls of the run, in the order they were issued
WriteCalls == SelectSeq(calls, LAMBDA c : c.op \in {"file", "header", "case"})

\* how many of the first i write calls were calls of op that succeeded
Written(op, i) ==
  Cardinality({j \in 1..i : WriteCalls[j].op = op /\ WriteCalls[j].ok})

\* the file row of the most recent file creation before write call i
RecentFile(i) == Added(tbl_file, db0[2])[Written("file", i)]

\* C24: the run issues its file, header and case creations in the order of
\* the traversal (document, suite, case): a file is created only when the
\* result of the run's identifier is stored (created by the run, or found by
\* the lookup when appending), its header directly follows it and precedes
\* its cases, and every case carries the run's identifier and the file id of
\* the most recent file creation, which is a file of the suite of the case
C24_WriteOrder ==
  /\ Len(WriteCalls) <= Len(WritePlan)
  /\ \A i \in 1..Len(WriteCalls) :
       /\ WriteCalls[i].op = WritePlan[i].op
       /\ (i < Len(WriteCalls)) => WriteCalls[i].ok
       /\ (WriteCalls[i].op = "file" /\ WriteCalls[i].ok) =>
            /\ RecentFile(i).name = WritePlan[i].name
            /\ RecentFile(i).test_result_id = tbl_test_result_id
       /\ (WriteCalls[i].op = "header" /\ WriteCalls[i].ok) =>
            LET header == Added(tbl_header, db0[3])[Written("header", i)]
            IN  /\ header.file_id = RecentFile(i).file_id
                /\ header.testfile = WritePlan[i].name
       /\ (WriteCalls[i].op = "case" /\ WriteCalls[i].ok) =>
            LET case == Added(tbl_case, db0[4])[Written("case", i)]
            IN  /\ case.file_id = RecentFile(i).file_id
                /\ case.test_result_id = tbl_test_result_id
                /\ RecentFile(i).name = WritePlan[i].name
  /\ \A i \in 1..Len(calls) :
       calls[i].op = "file" =>
         /\ \E r \in 1..Len(tbl_result) :
              tbl_result[r].test_result_id = tbl_test_result_id
         /\ IF args.append THEN StoredInfo # <<>>
            ELSE \E j \in 1..(i - 1) : calls[j] = Call("result", TRUE)
         /\ i < Len(calls) => calls[i + 1].op = "header"
  /\ \A i \in 1..Len(calls) :
       calls[i].op = "header" => calls[i - 1] = Call("file", TRUE)

\* an append run of three documents wrote the case of a second suite of
\* class a into a file of its own, after the files of the suites before
C24_Witness ==
  /\ args.append /\ pc = "done" /\ Len(listEntries) = 3
  /\ db0[2] # <<>>
  /\ Len(WriteCalls) = Len(WritePlan)
  /\ Len(Added(tbl_file, db0[2])) = 3
  /\ Len(Added(tbl_case, db0[4])) = 4

\* ------------------------------------------------------------------- C25
\* the test cases of the suites, in order of appearance
RECURSIVE TestsOf(_)
TestsOf(suites) ==
  IF suites = <<>> THEN <<>> ELSE Head(suites).tests \o TestsOf(Tail(suites))

\* the test cases the report documents of the command line hold
ReportedTests == TestsOf(Flatten(listEntries))

\* C25: a run that came through without abort has issued exactly one case
\* creation for every test case of every suite of every report document, in
\* order of appearance: the merged report holds the suites of all documents
\* in their order, and the k-th case written is the one of the k-th test
\* case (it lies in a file of the class name of that test case)
C25_OneCasePerTest ==
  (pc = "done" /\ ~args.dryrun) =>
    /\ pytest_result.suites = Flatten(listEntries)
    /\ Cardinality({i \in 1..Len(calls) : calls[i].op = "case"}) = Len(ReportedTests)
    /\ OkCalls("case") = Len(ReportedTests)
    /\ Len(Added(tbl_case, db0[4])) = Len(ReportedTests)
    /\ \A k \in 1..Len(ReportedTests) :
         LET case == Added(tbl_case, db0[4])[k]
         IN  /\ tbl_file[FileOf(case)].name = ReportedTests[k].classname
             /\ tbl_file[FileOf(case)].test_result_id = tbl_test_result_id
             /\ case.test_result_id = tbl_test_result_id

\* a run of three documents, the second without suite, came through: the
\* two suites of the first document and the suite of the third gave 4 cases
C25_Witness ==
  /\ pc = "done" /\ ~args.dryrun
  /\ listEntries = <<DocB, DocNoSuite, DocA>>
  /\ Len(pytest_result.suites) = 3
  /\ Len(Added(tbl_case, db0[4])) = 4

\* ------------------------------------------------------------------- C26
\* a result row without the mark of the finish
Unmarked(row) == [row EXCEPT !.state = "new"]

\* C26: an append run issues no result creation and leaves every result row
\* as it found it but for the mark of the finish (project, variant, branch,
\* versions, start and end time are the stored ones, also when the appended
\* suites lie outside the stored window); lookup aside, the only calls that
\* are not file, header or case creations are the refreshes and the finish
C26_AppendKeepsResult ==
  args.append =>
    /\ \A i \in 1..Len(calls) :
         calls[i].op \in {"lookup", "file", "header", "case"} \cup FinalCalls
    /\ Len(tbl_result) = Len(db0[1])
    /\ \A r \in 1..Len(tbl_result) : Unmarked(tbl_result[r]) = Unmarked(db0[1][r])

\* an append run came through whose report starts before and ends after the
\* window of the result it appended to
C26_Witness ==
  /\ args.append /\ pc = "done" /\ OkCalls("finish") = 1 /\ OkCalls("case") > 0
  /\ \E r \in 1..Len(tbl_result) :
       /\ tbl_result[r].test_result_id = tbl_test_result_id
       /\ tbl_result[r].state = "finished"
       /\ pytest_result.starttime.v < tbl_result[r].time_start.v
       /\ pytest_result.endtime.v > tbl_result[r].time_end.v

\* ------------------------- two importer processes on one database at once
\* the storage keeps the identifier of a result unique: a second creation
\* with a stored identifier is rejected, atomically with the test
RejectsDuplicate(results, id) == arGetProjectVersionSWByID(results, id) # <<>>

\* lines 1229-1243 on such a storage: the creation succeeds
CreateResultUnique ==
  /\ ~RejectsDuplicate(tbl_result, tbl_test_result_id)
  /\ CreateResult

\* line 1231 raises for the duplicate key: caught in line 1244
CreateResultRejected ==
  /\ RejectsDuplicate(tbl_result, tbl_test_result_id)
  /\ CreateResultFail

\* the operating system lets the other importer process run: between two
\* database calls of one importer the other may issue any number of its own
Switch ==
  /\ suspended' = Locals
  /\ pc' = Other.pc
  /\ error' = Other.error
  /\ args' = Other.args
  /\ dConfig' = Other.dConfig
  /\ config' = Other.config
  /\ listEntries' = Other.listEntries
  /\ pytest_result' = Other.pytest_result
  /\ bUseDefaultPrjVariant' = Other.bUseDefaultPrjVariant
  /\ bUseDefaultVersionSW' = Other.bUseDefaultVersionSW
  /\ tbl_prj_variant' = Other.tbl_prj_variant
  /\ tbl_prj_branch' = Other.tbl_prj_branch
  /\ tbl_result_version_sw_target' = Other.tbl_result_version_sw_target
  /\ tbl_result_version_hardware' = Other.tbl_result_version_hardware
  /\ tbl_result_version_sw_test' = Other.tbl_result_version_sw_test
  /\ tbl_test_result_id' = Other.tbl_test_result_id
  /\ suite_idx' = Other.suite_idx
  /\ test_idx' = Other.test_idx
  /\ previous_file_name' = Other.previous_file_name
  /\ tbl_file_id' = Other.tbl_file_id
  /\ tbl_file_time_start' = Other.tbl_file_time_start
  /\ tbl_file_time_end' = Other.tbl_file_time_end
  /\ test_number' = Other.test_number
  /\ test_start_time' = Other.test_start_time
  /\ iTotalTestcase' = Other.iTotalTestcase
  /\ iSuccessTestcase' = Other.iSuccessTestcase
  /\ dComponentCounter' = Other.dComponentCounter
  /\ calls' = Other.calls
  /\ db0' = Other.db0
  /\ UNCHANGED <<dbVars, nruns>>

RaceInputs ==
  [ args : {[NoArgs EXCEPT !.UUID = <<"u1">>]},
    config : {NoConfig},
    xmlfiles : {<<ReportA>>, <<ReportB>>} ]

StartRace == nruns < MaxRuns /\ \E in \in RaceInputs : StartRun(in)

StepsRace ==
  \/ Connect \/ ConnectFail
  \/ Lookup \/ LookupFail
  \/ CreateResultUnique \/ CreateResultRejected
  \/ ProcessSuite \/ EndSuites
  \/ NextTest \/ EndTests
  \/ CreateFile \/ CreateFileFail
  \/ CreateHeader \/ CreateHeaderFail
  \/ ProcessTest \/ ProcessTestFail
  \/ UpdateEvtbls \/ FinishTestResult \/ FinalizeFail
  \/ Disconnect

NextRace == StartRace \/ StepsRace \/ Switch

\* two importers in create mode with the same identifier, interleaved at
\* their database calls
SpecRace == Init /\ [][NextRace]_vars

\* ------------------------------------------------------------------- C27
\* the two importer processes
Importers == {Locals, Other}

RejectedAtCreation(imp) ==
  \E i \in 1..Len(imp.calls) : imp.calls[i] = Call("result", FALSE)

RejectedAtLookup(imp) == imp.pc = "aborted" /\ imp.error = "duplicate"

\* the importer was ended by a fatal error before it wrote anything into the
\* result: no file, header or case creation, no refresh and no finish
EndedBeforeWriting(imp) ==
  /\ imp.pc = "aborted"
  /\ \A i \in 1..Len(imp.calls) : imp.calls[i].op \in {"lookup", "result"}

\* C27: with two importers at work in create mode on one identifier and a
\* storage that rejects the duplicate key, no identifier is ever stored in
\* two result rows, and an importer whose result creation was rejected is
\* ended by a fatal error before it has written a file, a header or a case
\* or finished the result, as is one whose lookup found the identifier
C27_RaceLosesCleanly ==
  /\ \A r1, r2 \in 1..Len(tbl_result) :
       tbl_result[r1].test_result_id = tbl_result[r2].test_result_id => r1 = r2
  /\ \A imp \in Importers :
       /\ RejectedAtCreation(imp) =>
            /\ EndedBeforeWriting(imp)
            /\ imp.calls = <<Call("lookup", TRUE), Call("result", FALSE)>>
       /\ RejectedAtLookup(imp) =>
            /\ EndedBeforeWriting(imp)
            /\ imp.calls = <<Call("lookup", TRUE)>>

\* both importers looked the identifier up before either had created the
\* result, one of them created it and came through, the other was rejected
C27_Witness ==
  /\ pc = "done" /\ OkCalls("result") = 1 /\ OkCalls("finish") = 1
  /\ Other.pc = "aborted" /\ Other.error = "storage"
  /\ Other.calls = <<Call("lookup", TRUE), Call("result", FALSE)>>
  /\ Other.tbl_test_result_id = tbl_test_result_id
  /\ Other.db0[1] = <<>> /\ db0[1] = <<>>
  /\ Len(tbl_result) = 1

\* ------------------------------------------------------------------- C28
\* the timestamps a row of the tables holds
StoredTimes ==
  UNION { {tbl_result[r].time_start, tbl_result[r].time_end} : r \in 1..Len(tbl_result) }
  \cup UNION { {tbl_file[f].time_start, tbl_file[f].time_end} : f \in 1..Len(tbl_file) }
  \cup { tbl_case[k].time_start : k \in 1..Len(tbl_case) }

\* C28: every timestamp handed to the database (start and end of a result,
\* start and end of a file, start of a case) is in the format of the
\* database, to the second; the format of the report, with the fraction of
\* the second, is never stored
C28_SecondsPrecision ==
  \A t \in StoredTimes : t.fmt = DB_DATETIME_FORMAT

\* ------------------------------------------------------------------- C29
\* C29: a run in create mode (no dry run) on an identifier that was not
\* stored, none of whose database calls failed, is never ended by a fatal error or by an
\* exception (it goes on to the end of the summary), also when the suites
\* of the report hold no test case
C29_ValidRunEndsDone ==
  (~args.append /\ ~args.dryrun /\ LookupAnswered /\ StoredInfo = <<>>
     /\ \A i \in 1..Len(calls) : calls[i].ok)
    => pc \notin {"aborted", "crashed"}

\* ------------------------------------------------------------------- C30
RECURSIVE SumOfTallies(_, _)
SumOfTallies(counter, components) ==
  IF components = {} THEN 0
  ELSE LET c == CHOOSE x \in components : TRUE
       IN  counter[c] + SumOfTallies(counter, components \ {c})

\* the test cases of the suites the walk has left behind
WalkedBefore == CountTests(SubSeq(pytest_result.suites, 1, suite_idx - 1))

\* the test cases for which process_test has been called: those before the
\* one the walk is at, and the one whose creation raised
Started ==
  WalkedBefore +
    ( IF pc \in {"tests", "file", "header", "case", "aborted"} THEN test_idx - 1
      ELSE IF pc = "crashed" /\ error = "TypeError" THEN test_idx
      ELSE 0 )

\* C30: at every point of a run the cases succeeded are at most the cases
\* seen, no tally of a component is negative, the tallies add up to the
\* cases succeeded, and the cases seen are the test cases whose processing
\* has started (in a run that writes: one case creation issued for each,
\* and one success for each creation that succeeded)
C30_Counters ==
  /\ iSuccessTestcase <= iTotalTestcase
  /\ \A c \in DOMAIN dComponentCounter : dComponentCounter[c] >= 0
  /\ SumOfTallies(dComponentCounter, DOMAIN dComponentCounter) = iSuccessTestcase
  /\ iTotalTestcase = Started
  /\ ~args.dryrun =>
       /\ iTotalTestcase = Cardinality({i \in 1..Len(calls) : calls[i].op = "case"})
       /\ iSuccessTestcase = OkCalls("case")

\* the second test case of a suite failed to be created after the first was
\* counted for another component: two seen, one succeeded, two tallies
C30_Witness ==
  /\ pc = "crashed" /\ error = "TypeError"
  /\ iTotalTestcase = 2 /\ iSuccessTestcase = 1
  /\ Cardinality(DOMAIN dComponentCounter) = 2
  /\ \E c \in DOMAIN dComponentCounter : dComponentCounter[c] = 0

\* ------------------------------------------------------------------- C31
\* the result rows of the identifier of the run
ResultRows ==
  {r \in 1..Len(tbl_result) : tbl_result[r].test_result_id = tbl_test_result_id}

\* C31: in a run that creates its result, the project name of every header
\* the run writes (the one of the tool configuration and the one of the file
\* header) is the project/variant of the result row of the run, whether the
\* command line, the configuration file or the default supplied the variant
C31_HeaderProject ==
  (~args.append /\ ~args.dryrun) =>
    \A h \in 1..Len(Added(tbl_header, db0[3])) : \A r \in ResultRows :
      /\ Added(tbl_header, db0[3])[h].projectname = tbl_result[r].variant
      /\ Added(tbl_header, db0[3])[h].project = tbl_result[r].variant
      /\ Added(tbl_header, db0[3])[h].project = tbl_result[r].project

\* --------------------- a result is created, then appended to, with metadata
\* --variant: none, V, V with blanks around it, the built-in default
AppendVariants == {None, <<"V">>, <<" ","V"," ">>, DEFAULT_METADATA.variant}

\* --versions: none, 1, and h for the hardware with no software version
AppendVersions == {None, <<"1">>, <<";","h">>}

\* the file of --config: none, a variant, the built-in default as variant,
\* a software version, the built-in default as software version
AppendConfigs ==
  { NoConfig,
    [variant |-> <<"V">>],
    [variant |-> DEFAULT_METADATA.variant],
    [version_sw |-> <<"1">>],
    [version_sw |-> DEFAULT_METADATA.version_sw] }

AppendInputs ==
  [ args : [ append : BOOLEAN, UUID : {<<"u1">>}, dryrun : {FALSE},
             variant : AppendVariants, versions : AppendVersions ],
    config : AppendConfigs,
    xmlfiles : {<<ReportB>>} ]

\* the first run creates, the runs after it append
StartAppend ==
  /\ nruns < MaxRuns
  /\ \E in \in AppendInputs : in.args.append = (nruns > 0) /\ StartRun(in)

NextAppend == StartAppend \/ StepsCreate \/ UpdateEvtbl

SpecAppend == Init /\ [][NextAppend]_vars

\* ------------------------------------------------------------------- C32
\* the lookup of an append run found the result and the run was not ended
\* for its metadata
AppendAccepted ==
  args.append /\ LookupAnswered /\ StoredInfo # <<>> /\ error \notin Rejections

\* the variant the user supplied, the command line first (<<>>: none)
UserVariant ==
  IF SuppliedVariant THEN <<strip(args.variant)>>
  ELSE IF "variant" \in DOMAIN config THEN <<config.variant>>
  ELSE <<>>

\* the software version the user supplied, the command line first (an
\* empty version is none)
UserVersionSW ==
  IF Len(Versions(args)) > 0
    THEN (IF Versions(args)[1] # <<>> THEN <<Versions(args)[1]>> ELSE <<>>)
  ELSE IF "version_sw" \in DOMAIN config /\ config.version_sw # <<>>
    THEN <<config.version_sw>>
  ELSE <<>>

\* C32 as stated: in an accepted append run every variant and every software
\* version the user supplied, whatever its content (the built-in default
\* included), is the value stored for the result
C32_SuppliedMatches ==
  AppendAccepted =>
    /\ UserVariant # <<>> => UserVariant[1] = StoredInfo[1]
    /\ UserVersionSW # <<>> => UserVersionSW[1] = StoredInfo[2]

\* the variant comes from the configuration file and is the built-in
\* default: line 1149 takes it as not supplied
DefaultFromConfig ==
  ~SuppliedVariant /\ UserVariant = <<DEFAULT_METADATA.variant>>

\* C32: in an accepted append run the variant and the software version the
\* user supplied (the command line first, its values stripped) are the
\* values stored for the result, unless the variant comes from the
\* configuration file and is the built-in default
C32_SuppliedNonDefaultMatches ==
  AppendAccepted =>
    /\ (UserVariant # <<>> /\ ~DefaultFromConfig) => UserVariant[1] = StoredInfo[1]
    /\ UserVersionSW # <<>> => UserVersionSW[1] = StoredInfo[2]

\* an append run with --variant and a software version of the configuration
\* file, both as stored, was accepted and came through
C32_Witness ==
  /\ AppendAccepted /\ pc = "done"
  /\ SuppliedVariant /\ UserVariant = <<StoredInfo[1]>>
  /\ Len(Versions(args)) = 0 /\ "version_sw" \in DOMAIN config
  /\ UserVersionSW = <<StoredInfo[2]>> /\ StoredInfo[2] = <<"1">>

====
